---------------------------- MODULE Spec2Model ----------------------------
(***************************************************************************)
(* Model of src/src/reader.go (package fzf): the Reader that feeds records *)
(* from standard input, a shell command or a directory walk to a pusher,   *)
(* and reports progress through an event box.                              *)
(*                                                                         *)
(* Three specifications share the module:                                  *)
(*   Spec / FairSpec : the goroutines of a Reader (ReadSource, restart,    *)
(*                     the event poller, fin, terminate, the drivers),     *)
(*                     one step per shared-memory operation;               *)
(*   SpecFeed        : Reader.feed on a byte stream, one step per          *)
(*                     bufio.Reader operation, and readFromStdin's return; *)
(*   SpecWalk        : Reader.readFiles on a directory tree, one step per  *)
(*                     call of the visitor.                                *)
(***************************************************************************)
EXTENDS Integers, Sequences, FiniteSets, TLC

(***************************************************************************)
(* Bounds of the model.                                                    *)
(***************************************************************************)
\* passes (ReadSource, then restarts) of one Reader
MaxPass == 2
\* pusher calls per pass
MaxPush == 2
\* terminate() calls over the life of the Reader
MaxTerminate == 1
\* directory entries of a walk
MaxEntries == 2
\* goroutines of fastwalk that call the visitor concurrently
NumWalkers == 2

\* bytes of an input stream
MaxLen == 4
\* bytes in a configured KB: the unit of SLAB_KB and BUF_KB, which the program
\* multiplies by 1024; the model counts slabs and buffers in this unit
KB == 1
\* least size bufio.NewReaderSize gives a buffer (16 in package bufio)
MinReadBufferSize == 2

\* the byte values feed tells apart, and one plain byte ('a')
NUL == 0
LF == 10
CR == 13
Bytes == {NUL, LF, CR, 97}

\* values of SLAB_KB and BUF_KB: unset, or a number
SlabKBs == {<<>>, <<0>>, <<2>>, <<20>>}
BufKBs == {<<>>, <<0>>, <<3>>, <<10>>}

Commands == {"c1", "c2"}
Walkers == 1..NumWalkers
Passes == 1..MaxPass

\* util.EventType values used by the Reader
EvtReady == "EvtReady"
EvtReadNew == "EvtReadNew"
EvtReadFin == "EvtReadFin"

\* the poller's sleep intervals: least, increment, greatest
readerPollIntervalMin == 1
readerPollIntervalStep == 1
readerPollIntervalMax == 2

\* a nil *string / nil *exec.Cmd
NilCommand == "nil"
NilExec == [pass |-> 0, started |-> FALSE]

VARIABLES
  \* ---- fields of Reader ----
  wait,         \* r.wait
  event,        \* r.event
  finChan,      \* number of values in r.finChan (capacity 1)
  mutex,        \* holder of r.mutex: "none", "reader", "term"
  exec,         \* r.exec: the Cmd of the pass that created it, and whether its Process is set
  command,      \* r.command
  killed,       \* r.killed
  \* ---- the goroutine that runs ReadSource / restart ----
  rpc,          \* its position
  pass,         \* number of the pass it runs (0: none yet)
  driver,       \* driver selected for the pass
  cmdArg,       \* the command argument of readFromCommand
  success,      \* the driver's result
  ret,          \* fin's local ret
  pushes,       \* pusher calls made in this pass
  \* ---- the walk of readFiles ----
  entriesLeft,  \* entries fastwalk has not handed to a visitor yet
  walkErr,      \* a visitor returned context.Canceled
  wpc,          \* position of each walker goroutine
  \* ---- the poller goroutines, one started per pass ----
  ppc,
  \* ---- a caller of terminate() ----
  tpc,
  termCalls,
  termAt,       \* the pass in whose Reading phase the running terminate() was invoked (0: none)
  \* ---- environment ----
  proc,         \* the process of the latest started command
  src,          \* the stream feed reads: "none", "open", "ended"
  stdinClosed,  \* os.Stdin has been closed
  \* ---- history of the pass, for the properties ----
  finCount,     \* eventBox.Set(EvtReadFin, _) calls of this pass
  pushAfterFin, \* a pusher call happened after this pass's ReadFin was published
  cancelled,    \* a terminate() was invoked and returned during the Reading phase of this pass
  termInPass,   \* a terminate() was running or invoked during this pass
  owed,         \* pusher calls of this pass that returned true with no ReadNew published since
  unguarded,    \* Reader State fields written without holding r.mutex
  pollInterval, \* pollInterval of each poller goroutine
  termDone      \* the running terminate() was invoked after the pass had published ReadFin

rvars == <<wait, event, finChan, mutex, exec, command, killed, rpc, pass, driver,
           cmdArg, success, ret, pushes, entriesLeft, walkErr, wpc, ppc, tpc,
           termCalls, termAt, proc, src, stdinClosed, finCount, pushAfterFin, cancelled,
           termInPass, owed, unguarded, pollInterval, termDone>>

VARIABLES
  \* ---- what feed is called with ----
  input,        \* the bytes the source delivers before it ends
  srcErr,       \* how the source ends: "EOF" or another read error
  isWindows,    \* util.IsWindows()
  delimNil,     \* r.delimNil
  slabKB,       \* os.Getenv("SLAB_KB") as Atoi reads it: <<>> when it does not parse
  bufKB,        \* os.Getenv("BUF_KB"), likewise
  \* ---- the bufio.Reader ----
  pos,          \* bytes read from the source so far
  buf,          \* b.buf
  br,           \* b.r
  bw,           \* b.w
  berr,         \* b.err: "none", "EOF", "err"
  \* ---- locals of feed ----
  fpc,          \* "off", "read" (in the loops), "done" (returned), "panic"
  frags,        \* the fragments: slices of b.buf, kept as [lo, hi) ranges of it
  slab,         \* number of the current slab (each make() gives the next number)
  pointer,      \* the cursor into the slab
  pushed        \* the slices handed to r.pusher, in order

fvars == <<input, srcErr, isWindows, delimNil, slabKB, bufKB, pos, buf, br, bw,
           berr, fpc, frags, slab, pointer, pushed>>

VARIABLES
  \* ---- what the directory walk of readFiles is called with ----
  root,         \* the root path
  tree,         \* the entries below the root
  opts,         \* walkerOpts: hidden, file, dir
  ignores,      \* the ignored base names
  \* ---- fastwalk.Walk ----
  pending,      \* visitor calls fastwalk has still to make
  seen,         \* entries the visitor was called on without an error
  \* ---- what the pusher received ----
  walkPushed,   \* the paths pushed
  walkDup       \* a path was pushed more than once

wvars == <<root, tree, opts, ignores, pending, seen, walkPushed, walkDup>>

vars == <<rvars, fvars, wvars>>

ReadingPcs == {"cmd_lock", "cmd_body", "cmd_feed", "cmd_wait", "stdin_feed",
               "files_reset", "files_walk"}
FinPcs == {"fin_store", "fin_recv", "fin_lock", "fin_publish"}

(***************************************************************************)
(* NewReader                                                               *)
(***************************************************************************)
NewReader ==
  /\ wait \in BOOLEAN
  /\ event = EvtReady
  /\ finChan = 0
  /\ mutex = "none"
  /\ exec = NilExec
  /\ command = NilCommand
  /\ killed = FALSE

InitReader ==
  /\ NewReader
  /\ rpc = "idle" /\ pass = 0 /\ driver = "none" /\ cmdArg = NilCommand
  /\ success = FALSE /\ ret = NilCommand /\ pushes = 0
  /\ entriesLeft = 0 /\ walkErr = FALSE /\ wpc = [w \in Walkers |-> "idle"]
  /\ ppc = [p \in Passes |-> "none"]
  /\ tpc = "idle" /\ termCalls = 0 /\ termAt = 0
  /\ proc = "none" /\ src = "none" /\ stdinClosed = FALSE
  /\ finCount = 0 /\ pushAfterFin = FALSE /\ cancelled = FALSE
  /\ termInPass = FALSE /\ owed = 0 /\ unguarded = {}
  /\ pollInterval = [p \in Passes |-> readerPollIntervalMin]
  /\ termDone = FALSE

\* feed is not running
FeedOff ==
  /\ input = <<>> /\ srcErr = "EOF" /\ isWindows = FALSE /\ delimNil = FALSE
  /\ slabKB = <<>> /\ bufKB = <<>>
  /\ pos = 0 /\ buf = <<>> /\ br = 0 /\ bw = 0 /\ berr = "none"
  /\ fpc = "off" /\ frags = <<>> /\ slab = 0 /\ pointer = 0 /\ pushed = <<>>

\* no directory tree is walked entry by entry
WalkOff ==
  /\ root = <<>> /\ tree = {} /\ opts = [hidden |-> FALSE, file |-> FALSE, dir |-> FALSE]
  /\ ignores = {} /\ pending = {} /\ seen = {} /\ walkPushed = {} /\ walkDup = FALSE

Init == InitReader /\ FeedOff /\ WalkOff

\* what every pass start resets in the history variables
PassStart ==
  /\ pushes' = 0
  /\ finCount' = 0
  /\ pushAfterFin' = FALSE
  /\ cancelled' = FALSE
  /\ termInPass' = (tpc # "idle")
  /\ owed' = 0

(***************************************************************************)
(* startEventPoller: the goroutine of one pass                             *)
(***************************************************************************)
\* Grow with the bug of leaving out the cut to the maximum
GrowNoClamp(i) == i + readerPollIntervalStep

\* pollInterval += readerPollIntervalStep, cut to readerPollIntervalMax
Grow(i) ==
  IF i + readerPollIntervalStep > readerPollIntervalMax
     THEN readerPollIntervalMax
     ELSE i + readerPollIntervalStep

\* PollCAS with the bug of swapping EvtReadNew away without going on to publish it
PollCASNoSet(p) ==
  /\ ppc[p] = "cas"
  /\ event' = IF event = EvtReadNew THEN EvtReady ELSE event
  /\ ppc' = [ppc EXCEPT ![p] = "load"]
  /\ UNCHANGED <<wait, finChan, mutex, exec, command, killed, rpc, pass, driver,
                 cmdArg, success, ret, pushes, entriesLeft, walkErr, wpc, tpc,
                 termCalls, proc, src, stdinClosed, finCount, pushAfterFin,
                 cancelled, termInPass, owed, unguarded, termAt, pollInterval, termDone, fvars, wvars>>

\* atomic.CompareAndSwapInt32(ptr, EvtReadNew, EvtReady)
PollCAS(p) ==
  /\ ppc[p] = "cas"
  /\ IF event = EvtReadNew
        THEN /\ event' = EvtReady
             /\ ppc' = [ppc EXCEPT ![p] = "set"]
        ELSE /\ event' = event
             /\ ppc' = [ppc EXCEPT ![p] = "load"]
  /\ UNCHANGED <<wait, finChan, mutex, exec, command, killed, rpc, pass, driver,
                 cmdArg, success, ret, pushes, entriesLeft, walkErr, wpc, tpc,
                 termCalls, proc, src, stdinClosed, finCount, pushAfterFin,
                 cancelled, termInPass, owed, unguarded, termAt, pollInterval, termDone, fvars, wvars>>

\* r.eventBox.Set(EvtReadNew, nil), then the sleep
PollSet(p) ==
  /\ ppc[p] = "set"
  /\ ppc' = [ppc EXCEPT ![p] = "cas"]
  /\ owed' = 0
  /\ UNCHANGED <<wait, event, finChan, mutex, exec, command, killed, rpc, pass,
                 driver, cmdArg, success, ret, pushes, entriesLeft, walkErr, wpc,
                 tpc, termCalls, proc, src, stdinClosed, finCount, pushAfterFin,
                 cancelled, termInPass, unguarded, termAt, termDone, fvars, wvars>>
  /\ pollInterval' = [pollInterval EXCEPT ![p] = readerPollIntervalMin]

\* PollLoad with the bug of the poller publishing EvtReadFin itself when it
\* sees the terminal state, besides fin
PollLoadPublishes(p) ==
  /\ ppc[p] = "load"
  /\ ppc' = [ppc EXCEPT ![p] =
               IF event = EvtReadFin
                  THEN (IF wait THEN "send" ELSE "exit")
                  ELSE "cas"]
  /\ finCount' = IF event = EvtReadFin THEN finCount + 1 ELSE finCount
  /\ UNCHANGED <<wait, event, finChan, mutex, exec, command, killed, rpc, pass,
                 driver, cmdArg, success, ret, pushes, entriesLeft, walkErr, wpc,
                 tpc, termCalls, proc, src, stdinClosed, pushAfterFin,
                 cancelled, termInPass, owed, unguarded, termAt, termDone, fvars, wvars>>
  /\ pollInterval' = [pollInterval EXCEPT ![p] =
                        IF event = EvtReadFin
                           THEN readerPollIntervalMin
                           ELSE Grow(pollInterval[p])]

\* atomic.LoadInt32(ptr) == EvtReadFin, else the longer sleep; a poller that
\* returns has no pollInterval any more: the model puts it back to the least
PollLoad(p) ==
  /\ ppc[p] = "load"
  /\ ppc' = [ppc EXCEPT ![p] =
               IF event = EvtReadFin
                  THEN (IF wait THEN "send" ELSE "exit")
                  ELSE "cas"]
  /\ UNCHANGED <<wait, event, finChan, mutex, exec, command, killed, rpc, pass,
                 driver, cmdArg, success, ret, pushes, entriesLeft, walkErr, wpc,
                 tpc, termCalls, proc, src, stdinClosed, finCount, pushAfterFin,
                 cancelled, termInPass, owed, unguarded, termAt, termDone, fvars, wvars>>
  /\ pollInterval' = [pollInterval EXCEPT ![p] =
                        IF event = EvtReadFin
                           THEN readerPollIntervalMin
                           ELSE Grow(pollInterval[p])]

\* r.finChan <- true, then return
PollSend(p) ==
  /\ ppc[p] = "send"
  /\ finChan < 1
  /\ finChan' = finChan + 1
  /\ ppc' = [ppc EXCEPT ![p] = "exit"]
  /\ UNCHANGED <<wait, event, mutex, exec, command, killed, rpc, pass, driver,
                 cmdArg, success, ret, pushes, entriesLeft, walkErr, wpc, tpc,
                 termCalls, proc, src, stdinClosed, finCount, pushAfterFin,
                 cancelled, termInPass, owed, unguarded, termAt, pollInterval, termDone, fvars, wvars>>

Poller(p) == PollCAS(p) \/ PollSet(p) \/ PollLoad(p) \/ PollSend(p)

(***************************************************************************)
(* ReadSource and restart                                                  *)
(***************************************************************************)
\* ReadSource: start the poller, select the driver from IsTty() and
\* FZF_DEFAULT_COMMAND.
ReadSource ==
  /\ rpc = "idle" /\ pass = 0
  /\ pass' = 1
  /\ ppc' = [ppc EXCEPT ![1] = "cas"]
  /\ \E isTty \in BOOLEAN, cmd \in {""} \cup Commands :
       IF isTty
          THEN IF cmd = ""
                  THEN /\ driver' = "files" /\ rpc' = "files_reset"
                       /\ cmdArg' = cmdArg /\ src' = src
                  ELSE /\ driver' = "cmd" /\ rpc' = "cmd_lock"
                       /\ cmdArg' = cmd /\ src' = src
          ELSE /\ driver' = "stdin" /\ rpc' = "stdin_feed"
               /\ cmdArg' = cmdArg
               /\ src' = IF stdinClosed THEN "ended" ELSE "open"
  /\ PassStart
  /\ UNCHANGED <<wait, event, finChan, mutex, exec, command, killed, success, ret,
                 entriesLeft, walkErr, wpc, tpc, termCalls, proc, stdinClosed,
                 unguarded, termAt, termDone, fvars, wvars>>
  /\ pollInterval' = [pollInterval EXCEPT ![1] = readerPollIntervalMin]

\* restart(command, environ): called once the previous pass has published ReadFin
restart ==
  /\ rpc = "done" /\ pass < MaxPass
  /\ \E c \in Commands : cmdArg' = c
  /\ event' = EvtReady
  /\ pass' = pass + 1
  /\ ppc' = [ppc EXCEPT ![pass + 1] = "cas"]
  /\ driver' = "cmd" /\ rpc' = "cmd_lock"
  /\ PassStart
  /\ UNCHANGED <<wait, finChan, mutex, exec, command, killed, success, ret,
                 entriesLeft, walkErr, wpc, tpc, termCalls, proc, src,
                 stdinClosed, unguarded, termAt, termDone, fvars, wvars>>
  /\ pollInterval' = [pollInterval EXCEPT ![pass + 1] = readerPollIntervalMin]

(***************************************************************************)
(* readFromCommand                                                         *)
(***************************************************************************)
\* r.mutex.Lock()
CmdLock ==
  /\ rpc = "cmd_lock"
  /\ mutex = "none"
  /\ mutex' = "reader"
  /\ rpc' = "cmd_body"
  /\ UNCHANGED <<wait, event, finChan, exec, command, killed, pass, driver, cmdArg,
                 success, ret, pushes, entriesLeft, walkErr, wpc, ppc, tpc,
                 termCalls, proc, src, stdinClosed, finCount, pushAfterFin,
                 cancelled, termInPass, owed, unguarded, termAt, pollInterval, termDone, fvars, wvars>>

\* the fields a write touches without the writer holding the mutex
Unguarded(who, fields) == IF mutex = who THEN unguarded ELSE unguarded \cup fields

\* killed, command, exec are set; StdoutPipe and Start succeed or fail; Unlock
CmdBody ==
  /\ rpc = "cmd_body"
  /\ killed' = FALSE
  /\ command' = cmdArg
  /\ unguarded' = Unguarded("reader", {"killed", "command", "exec"})
  /\ \E outcome \in {"pipe_err", "start_err", "ok"} :
       IF outcome = "ok"
          THEN /\ exec' = [pass |-> pass, started |-> TRUE]
               /\ proc' = "running"
               /\ src' = "open"
               /\ rpc' = "cmd_feed"
               /\ success' = success
          ELSE /\ exec' = [pass |-> pass, started |-> FALSE]
               /\ proc' = "none"
               /\ src' = src
               /\ rpc' = "fin_store"
               /\ success' = FALSE
  /\ mutex' = "none"
  /\ UNCHANGED <<wait, event, finChan, pass, driver, cmdArg, ret, pushes,
                 entriesLeft, walkErr, wpc, ppc, tpc, termCalls, stdinClosed,
                 finCount, pushAfterFin, cancelled, termInPass, owed, termAt, pollInterval, termDone, fvars, wvars>>

\* r.exec.Wait() == nil
CmdWait ==
  /\ rpc = "cmd_wait"
  /\ proc \in {"exit0", "exitFail", "killed"}
  /\ success' = (proc = "exit0")
  /\ rpc' = "fin_store"
  /\ UNCHANGED <<wait, event, finChan, mutex, exec, command, killed, pass, driver,
                 cmdArg, ret, pushes, entriesLeft, walkErr, wpc, ppc, tpc,
                 termCalls, proc, src, stdinClosed, finCount, pushAfterFin,
                 cancelled, termInPass, owed, unguarded, termAt, pollInterval, termDone, fvars, wvars>>

(***************************************************************************)
(* feed, as the Reader's other goroutines see it: pusher calls, stores of  *)
(* EvtReadNew, and its return when the stream ends                         *)
(***************************************************************************)
\* Push with the bug of storing EvtReadNew whatever the pusher returned
PushAlwaysStores(b) ==
  /\ pushes' = pushes + 1
  /\ event' = EvtReadNew
  /\ owed' = IF b THEN owed + 1 ELSE owed
  /\ pushAfterFin' = (pushAfterFin \/ finCount > 0)

\* r.pusher(slice) returning b, and the store of EvtReadNew when b
Push(b) ==
  /\ pushes' = pushes + 1
  /\ event' = IF b THEN EvtReadNew ELSE event
  /\ owed' = IF b THEN owed + 1 ELSE owed
  /\ pushAfterFin' = (pushAfterFin \/ finCount > 0)

AfterFeed == IF driver = "cmd" THEN "cmd_wait" ELSE "fin_store"

\* one record ended by the delimiter (err == nil)
FeedRecord ==
  /\ rpc \in {"cmd_feed", "stdin_feed"}
  /\ src = "open"
  /\ pushes < MaxPush
  /\ \E b \in BOOLEAN : Push(b)
  /\ UNCHANGED <<wait, finChan, mutex, exec, command, killed, rpc, pass, driver,
                 cmdArg, success, ret, entriesLeft, walkErr, wpc, ppc, tpc,
                 termCalls, proc, src, stdinClosed, finCount, cancelled,
                 termInPass, unguarded, termAt, pollInterval, termDone, fvars, wvars>>

\* the stream ended (err != nil): the rest is pushed when it is not empty, and
\* feed returns; readFromStdin then returns true
FeedEnd ==
  /\ rpc \in {"cmd_feed", "stdin_feed"}
  /\ src = "ended"
  /\ \/ /\ pushes < MaxPush
        /\ \E b \in BOOLEAN : Push(b)
     \/ UNCHANGED <<pushes, event, owed, pushAfterFin>>
  /\ rpc' = AfterFeed
  /\ success' = IF driver = "stdin" THEN TRUE ELSE success
  /\ UNCHANGED <<wait, finChan, mutex, exec, command, killed, pass, driver,
                 cmdArg, ret, entriesLeft, walkErr, wpc, ppc, tpc, termCalls,
                 proc, src, stdinClosed, finCount, cancelled, termInPass,
                 unguarded, termAt, pollInterval, termDone, fvars, wvars>>

(***************************************************************************)
(* readFiles                                                               *)
(***************************************************************************)
\* r.killed = false (no lock taken), then fastwalk.Walk starts
FilesReset ==
  /\ rpc = "files_reset"
  /\ killed' = FALSE
  /\ unguarded' = Unguarded("reader", {"killed"})
  /\ \E n \in 0..MaxEntries : entriesLeft' = n
  /\ walkErr' = FALSE
  /\ rpc' = "files_walk"
  /\ UNCHANGED <<wait, event, finChan, mutex, exec, command, pass, driver, cmdArg,
                 success, ret, pushes, wpc, ppc, tpc, termCalls, proc, src,
                 stdinClosed, finCount, pushAfterFin, cancelled, termInPass, owed, termAt, pollInterval, termDone, fvars, wvars>>

\* fastwalk hands the next entry to a free walker, unless a visitor failed
WalkTake(w) ==
  /\ rpc = "files_walk"
  /\ wpc[w] = "idle"
  /\ entriesLeft > 0
  /\ ~walkErr
  /\ entriesLeft' = entriesLeft - 1
  /\ wpc' = [wpc EXCEPT ![w] = "visit"]
  /\ UNCHANGED <<wait, event, finChan, mutex, exec, command, killed, rpc, pass,
                 driver, cmdArg, success, ret, pushes, walkErr, ppc, tpc,
                 termCalls, proc, src, stdinClosed, finCount, pushAfterFin,
                 cancelled, termInPass, owed, unguarded, termAt, pollInterval, termDone, fvars, wvars>>

\* the visitor up to the lock: an entry error or a skipped directory returns at
\* once; otherwise the path is pushed when its type is wanted
WalkVisit(w) ==
  /\ wpc[w] = "visit"
  /\ \/ /\ wpc' = [wpc EXCEPT ![w] = "idle"]
        /\ UNCHANGED <<pushes, event, owed, pushAfterFin>>
     \/ /\ wpc' = [wpc EXCEPT ![w] = "check"]
        /\ UNCHANGED <<pushes, event, owed, pushAfterFin>>
     \/ /\ pushes < MaxPush
        /\ wpc' = [wpc EXCEPT ![w] = "check"]
        /\ \E b \in BOOLEAN : Push(b)
  /\ UNCHANGED <<wait, finChan, mutex, exec, command, killed, rpc, pass, driver,
                 cmdArg, success, ret, entriesLeft, walkErr, ppc, tpc, termCalls,
                 proc, src, stdinClosed, finCount, cancelled, termInPass,
                 unguarded, termAt, pollInterval, termDone, fvars, wvars>>

\* r.mutex.Lock(); if r.killed { return context.Canceled }; Unlock
WalkCheck(w) ==
  /\ wpc[w] = "check"
  /\ mutex = "none"
  /\ walkErr' = (walkErr \/ killed)
  /\ wpc' = [wpc EXCEPT ![w] = "idle"]
  /\ UNCHANGED <<wait, event, finChan, mutex, exec, command, killed, rpc, pass,
                 driver, cmdArg, success, ret, pushes, entriesLeft, ppc, tpc,
                 termCalls, proc, src, stdinClosed, finCount, pushAfterFin,
                 cancelled, termInPass, owed, unguarded, termAt, pollInterval, termDone, fvars, wvars>>

Walker(w) == WalkTake(w) \/ WalkVisit(w) \/ WalkCheck(w)

\* the walk is over when every walker has returned
WalkOver ==
  /\ \A w \in Walkers : wpc[w] = "idle"
  /\ entriesLeft = 0 \/ walkErr

\* return fastwalk.Walk(&conf, root, fn) == nil
FilesDone ==
  /\ rpc = "files_walk"
  /\ WalkOver
  /\ success' = ~walkErr
  /\ rpc' = "fin_store"
  /\ UNCHANGED <<wait, event, finChan, mutex, exec, command, killed, pass, driver,
                 cmdArg, ret, pushes, entriesLeft, walkErr, wpc, ppc, tpc,
                 termCalls, proc, src, stdinClosed, finCount, pushAfterFin,
                 cancelled, termInPass, owed, unguarded, termAt, pollInterval, termDone, fvars, wvars>>

(***************************************************************************)
(* fin                                                                     *)
(***************************************************************************)
\* atomic.StoreInt32(&r.event, EvtReadFin)
FinStore ==
  /\ rpc = "fin_store"
  /\ event' = EvtReadFin
  /\ owed' = 0
  /\ rpc' = IF wait THEN "fin_recv" ELSE "fin_lock"
  /\ UNCHANGED <<wait, finChan, mutex, exec, command, killed, pass, driver, cmdArg,
                 success, ret, pushes, entriesLeft, walkErr, wpc, ppc, tpc,
                 termCalls, proc, src, stdinClosed, finCount, pushAfterFin,
                 cancelled, termInPass, unguarded, termAt, pollInterval, termDone, fvars, wvars>>

\* <-r.finChan
FinRecv ==
  /\ rpc = "fin_recv"
  /\ finChan > 0
  /\ finChan' = finChan - 1
  /\ rpc' = "fin_lock"
  /\ UNCHANGED <<wait, event, mutex, exec, command, killed, pass, driver, cmdArg,
                 success, ret, pushes, entriesLeft, walkErr, wpc, ppc, tpc,
                 termCalls, proc, src, stdinClosed, finCount, pushAfterFin,
                 cancelled, termInPass, owed, unguarded, termAt, pollInterval, termDone, fvars, wvars>>

\* FinRet with the bug of keeping the command whatever the outcome
FinRetAlways == command

\* the payload fin computes under the mutex
FinRet == IF success \/ killed THEN NilCommand ELSE command

\* Lock; ret := r.command, or nil when success || r.killed; Unlock
FinLock ==
  /\ rpc = "fin_lock"
  /\ mutex = "none"
  /\ ret' = FinRet
  /\ rpc' = "fin_publish"
  /\ UNCHANGED <<wait, event, finChan, mutex, exec, command, killed, pass, driver,
                 cmdArg, success, pushes, entriesLeft, walkErr, wpc, ppc, tpc,
                 termCalls, proc, src, stdinClosed, finCount, pushAfterFin,
                 cancelled, termInPass, owed, unguarded, termAt, pollInterval, termDone, fvars, wvars>>

\* r.eventBox.Set(EvtReadFin, ret)
FinPublish ==
  /\ rpc = "fin_publish"
  /\ finCount' = finCount + 1
  /\ rpc' = "done"
  /\ UNCHANGED <<wait, event, finChan, mutex, exec, command, killed, pass, driver,
                 cmdArg, success, ret, pushes, entriesLeft, walkErr, wpc, ppc, tpc,
                 termCalls, proc, src, stdinClosed, pushAfterFin, cancelled,
                 termInPass, owed, unguarded, termAt, pollInterval, termDone, fvars, wvars>>

(***************************************************************************)
(* terminate                                                               *)
(***************************************************************************)
\* a caller invokes terminate(): r.mutex.Lock()
TermLock ==
  /\ tpc = "idle"
  /\ termCalls < MaxTerminate
  /\ mutex = "none"
  /\ mutex' = "term"
  /\ tpc' = "body"
  /\ termCalls' = termCalls + 1
  /\ termInPass' = (termInPass \/ rpc \in ReadingPcs \cup FinPcs)
  /\ termAt' = IF rpc \in ReadingPcs THEN pass ELSE 0
  /\ UNCHANGED <<wait, event, finChan, exec, command, killed, rpc, pass, driver,
                 cmdArg, success, ret, pushes, entriesLeft, walkErr, wpc, ppc,
                 proc, src, stdinClosed, finCount, pushAfterFin, cancelled, owed,
                 unguarded, pollInterval, fvars, wvars>>
  /\ termDone' = (rpc = "done")

\* r.exec != nil && r.exec.Process != nil
HasProcess == exec # NilExec /\ exec.started

\* killed = true; KillCommand(r.exec) or os.Stdin.Close(); Unlock
TermBody ==
  /\ tpc = "body"
  /\ killed' = TRUE
  /\ unguarded' = Unguarded("term", {"killed"})
  /\ IF HasProcess
        THEN /\ proc' = IF proc = "running" THEN "killed" ELSE proc
             /\ src' = IF proc = "running" THEN "ended" ELSE src
             /\ stdinClosed' = stdinClosed
        ELSE /\ stdinClosed' = TRUE
             /\ src' = IF driver = "stdin" /\ src = "open" THEN "ended" ELSE src
             /\ proc' = proc
  /\ mutex' = "none"
  /\ tpc' = "idle"
  /\ cancelled' = (cancelled \/ (termAt = pass /\ rpc \in ReadingPcs))
  /\ termAt' = 0
  /\ UNCHANGED <<wait, event, finChan, exec, command, rpc, pass, driver, cmdArg,
                 success, ret, pushes, entriesLeft, walkErr, wpc, ppc, termCalls,
                 finCount, pushAfterFin, termInPass, owed, pollInterval, fvars, wvars>>
  /\ termDone' = FALSE

(***************************************************************************)
(* Environment: the command's process and the input stream                 *)
(***************************************************************************)
\* the command exits on its own, with status zero or not; its stdout ends
ProcExit ==
  /\ proc = "running"
  /\ \E st \in {"exit0", "exitFail"} : proc' = st
  /\ src' = "ended"
  /\ UNCHANGED <<wait, event, finChan, mutex, exec, command, killed, rpc, pass,
                 driver, cmdArg, success, ret, pushes, entriesLeft, walkErr, wpc,
                 ppc, tpc, termCalls, stdinClosed, finCount, pushAfterFin,
                 cancelled, termInPass, owed, unguarded, termAt, pollInterval, termDone, fvars, wvars>>

\* the stream ends while its writer lives on: end of standard input, a command
\* that closes its stdout, a read error
SrcEnd ==
  /\ rpc \in {"cmd_feed", "stdin_feed"}
  /\ src = "open"
  /\ src' = "ended"
  /\ UNCHANGED <<wait, event, finChan, mutex, exec, command, killed, rpc, pass,
                 driver, cmdArg, success, ret, pushes, entriesLeft, walkErr, wpc,
                 ppc, tpc, termCalls, proc, stdinClosed, finCount, pushAfterFin,
                 cancelled, termInPass, owed, unguarded, termAt, pollInterval, termDone, fvars, wvars>>

(***************************************************************************)
(* The Reader's goroutines together                                        *)
(***************************************************************************)
\* the steps of the ReadSource/restart goroutine that need nothing from outside
ReaderStep ==
  \/ CmdLock \/ CmdBody \/ CmdWait \/ FeedEnd \/ FilesReset \/ FilesDone
  \/ FinStore \/ FinRecv \/ FinLock \/ FinPublish

Next ==
  \/ ReadSource \/ restart
  \/ ReaderStep
  \/ FeedRecord
  \/ \E w \in Walkers : Walker(w)
  \/ \E p \in Passes : Poller(p)
  \/ TermLock \/ TermBody
  \/ ProcExit \/ SrcEnd

Spec == Init /\ [][Next]_vars

\* Go schedules every runnable goroutine: the Reader's own steps, the walkers,
\* the pollers and a terminate() that holds the mutex all proceed.  What the
\* outside decides is not fair: a new record arriving, the command exiting,
\* the stream ending, a caller invoking terminate() or restart().
Fairness ==
  /\ WF_vars(ReaderStep)
  /\ \A w \in Walkers : WF_vars(Walker(w))
  /\ \A p \in Passes : WF_vars(Poller(p))
  /\ WF_vars(TermBody)

FairSpec == Spec /\ Fairness


(***************************************************************************)
(* feed(src), step by step: reader.ReadSlice and what it reads from src,   *)
(* then the body of the loops                                              *)
(***************************************************************************)
Min(a, b) == IF a < b THEN a ELSE b

\* all byte sequences of length at most n
RECURSIVE SeqsUpTo(_)
SeqsUpTo(n) ==
  IF n = 0 THEN {<<>>}
  ELSE LET shorter == SeqsUpTo(n - 1)
       IN  shorter \cup {Append(q, b) : q \in {x \in shorter : Len(x) = n - 1}, b \in Bytes}

\* readerSlabSize: 128 * 1024 when SLAB_KB does not parse, else SLAB_KB * 1024
readerSlabSize == IF slabKB = <<>> THEN 128 * KB ELSE slabKB[1] * KB

\* readerBufferSize: 64 * 1024 when BUF_KB does not parse, else BUF_KB * 1024
readerBufferSize == IF bufKB = <<>> THEN 64 * KB ELSE bufKB[1] * KB

\* len(b.buf) after bufio.NewReaderSize(src, readerBufferSize)
BufLen == IF readerBufferSize < MinReadBufferSize THEN MinReadBufferSize ELSE readerBufferSize

\* maxBytes := readerBufferSize / 10
maxBytes == readerBufferSize \div 10

\* delim
Delim == IF delimNil THEN NUL ELSE LF

\* feed is called: the slab is made, the bufio.Reader is empty
InitFeed ==
  /\ input \in SeqsUpTo(MaxLen)
  /\ srcErr \in {"EOF", "err"}
  /\ isWindows \in BOOLEAN
  /\ delimNil \in BOOLEAN
  /\ slabKB \in SlabKBs
  /\ bufKB \in BufKBs
  /\ pos = 0
  /\ buf = [i \in 1..BufLen |-> NUL]
  /\ br = 0 /\ bw = 0 /\ berr = "none"
  /\ fpc = "read"
  /\ frags = <<>>
  /\ slab = 1
  /\ pointer = 0
  /\ pushed = <<>>

\* the Reader's goroutines are not running
ReaderOff == InitReader /\ wait = FALSE

\* bytes.IndexByte(b.buf[b.r:b.w], delim) + b.r, or -1 (b.buf[i] is buf[i + 1])
IndexDelim ==
  LET hits == {i \in br..(bw - 1) : buf[i + 1] = Delim}
  IN  IF hits = {} THEN -1 ELSE CHOOSE i \in hits : \A j \in hits : i <= j

\* b.fill(): slide the unread bytes to the front, then one Read of the source,
\* which gives some of the bytes that are left, or the error that ends it
FeedFill ==
  /\ fpc = "read"
  /\ IndexDelim = -1
  /\ berr = "none"
  /\ bw - br < BufLen
  /\ LET w1 == bw - br
         slid == [i \in 1..BufLen |-> IF i <= w1 THEN buf[br + i] ELSE buf[i]]
     IN  /\ br' = 0
         /\ IF pos < Len(input)
               THEN \E n \in 1..Min(BufLen - w1, Len(input) - pos) :
                      /\ buf' = [i \in 1..BufLen |->
                                   IF i > w1 /\ i <= w1 + n
                                      THEN input[pos + i - w1] ELSE slid[i]]
                      /\ bw' = w1 + n
                      /\ pos' = pos + n
                      /\ berr' = "none"
               ELSE /\ buf' = slid
                    /\ bw' = w1
                    /\ pos' = pos
                    /\ berr' = srcErr
  /\ UNCHANGED <<input, srcErr, isWindows, delimNil, slabKB, bufKB, fpc, frags,
                 slab, pointer, pushed, rvars, wvars>>

\* ReadSlice returns bufio.ErrBufferFull with line = b.buf: feed appends the
\* slice to frags
FeedFragment ==
  /\ fpc = "read"
  /\ IndexDelim = -1
  /\ berr = "none"
  /\ bw - br >= BufLen
  /\ frags' = Append(frags, [lo |-> 0, hi |-> BufLen])
  /\ br' = bw
  /\ UNCHANGED <<input, srcErr, isWindows, delimNil, slabKB, bufKB, pos, buf, bw,
                 berr, fpc, slab, pointer, pushed, rvars, wvars>>

\* the bytes of b.buf[lo:hi] as they are now
View(lo, hi) == [i \in 1..(hi - lo) |-> buf[lo + i]]

\* fragsLen
RECURSIVE FragsLen(_)
FragsLen(fs) == IF fs = <<>> THEN 0 ELSE (Head(fs).hi - Head(fs).lo) + FragsLen(Tail(fs))

\* the fragments copied one after the other, read from b.buf at the copy
RECURSIVE Merge(_)
Merge(fs) == IF fs = <<>> THEN <<>> ELSE View(Head(fs).lo, Head(fs).hi) \o Merge(Tail(fs))

\* the end of bytea once the delimiter, and on Windows a CR before it, is cut
Trim(lo, hi) ==
  IF isWindows /\ hi - lo >= 2 /\ buf[hi - 1] = CR THEN hi - 2 ELSE hi - 1

\* ReadSlice returns the bytes up to the delimiter (err == nil) or, at the end
\* of the source, the rest with the error; feed places the item in the slab or
\* in an allocation of its own, copies it, pushes it and loops or returns
FeedItem ==
  /\ fpc = "read"
  /\ IndexDelim >= 0 \/ berr # "none"
  /\ LET found == IndexDelim >= 0
         lo == br
         end == IF found THEN IndexDelim + 1 ELSE bw
         hi == IF found THEN Trim(lo, end) ELSE end
         itemLen == FragsLen(frags) + (hi - lo)
         pointer1 == pointer + itemLen
         useSlab == itemLen <= maxBytes
         fresh == useSlab /\ pointer1 > readerSlabSize
         pointer2 == IF fresh THEN itemLen ELSE pointer1
         outOfRange == useSlab /\ pointer2 > readerSlabSize
         item == [bytes |-> Merge(frags) \o View(lo, hi),
                  own |-> ~useSlab,
                  slab |-> IF useSlab THEN (IF fresh THEN slab + 1 ELSE slab) ELSE 0,
                  lo |-> IF useSlab THEN pointer2 - itemLen ELSE 0,
                  hi |-> IF useSlab THEN pointer2 ELSE itemLen]
     IN  /\ br' = end
         /\ berr' = IF found THEN berr ELSE "none"
         /\ slab' = IF fresh THEN slab + 1 ELSE slab
         /\ pointer' = pointer2
         /\ IF outOfRange
               THEN /\ fpc' = "panic"
                    /\ UNCHANGED <<pushed, frags>>
               ELSE /\ pushed' = IF found \/ itemLen > 0
                                    THEN Append(pushed, item) ELSE pushed
                    /\ fpc' = IF found THEN "read" ELSE "done"
                    /\ frags' = IF found THEN <<>> ELSE frags
  /\ UNCHANGED <<input, srcErr, isWindows, delimNil, slabKB, bufKB, pos, buf, bw,
                 rvars, wvars>>

\* readFromStdin: feed has returned, with no result; return true
readFromStdin ==
  /\ fpc = "done"
  /\ fpc' = "returned"
  /\ success' = TRUE
  /\ UNCHANGED <<wait, event, finChan, mutex, exec, command, killed, rpc, pass, driver,
                 cmdArg, ret, pushes, entriesLeft, walkErr, wpc, ppc, tpc,
                 termCalls, termAt, proc, src, stdinClosed, finCount, pushAfterFin,
                 cancelled, termInPass, owed, unguarded, pollInterval, termDone>>
  /\ UNCHANGED <<input, srcErr, isWindows, delimNil, slabKB, bufKB, pos, buf, br, bw,
                 berr, frags, slab, pointer, pushed, wvars>>

NextFeed == FeedFill \/ FeedFragment \/ FeedItem \/ readFromStdin

\* feed called on a Reader whose goroutines are not modelled
InitSplitter == InitFeed /\ ReaderOff /\ WalkOff

SpecFeed == InitSplitter /\ [][NextFeed]_vars

(***************************************************************************)
(* readFiles, entry by entry: fastwalk.Walk calls the visitor fn on the    *)
(* root and on the entries of every directory fn did not skip              *)
(***************************************************************************)
\* file names are sequences of characters; a path is a sequence of names
Dot == "."
NameDot == <<".">>
NameT == <<"t">>
NameA == <<"a">>
NameGit == <<".", "g">>
NameSub == <<"s">>
NameC == <<"c">>

Roots == {<<NameDot>>, <<NameT>>, <<NameGit>>}
TopNames == {NameA, NameGit, NameSub}
IgnoreSets == {{}, {NameSub}, {NameSub, NameA}}

\* what a name at the top of the tree is: absent, a file, a directory with a
\* file, a directory with a directory named NameSub or NameGit holding a file
Kinds == {"none", "file", "dirFile", "dirSub", "dirHidden"}

Shape(r, n, k) ==
  LET d == r \o <<n>>
      sub == IF k = "dirSub" THEN NameSub ELSE NameGit
  IN  CASE k = "none" -> {}
        [] k = "file" -> {[path |-> d, isDir |-> FALSE]}
        [] k = "dirFile" -> {[path |-> d, isDir |-> TRUE],
                             [path |-> d \o <<NameC>>, isDir |-> FALSE]}
        [] OTHER -> {[path |-> d, isDir |-> TRUE],
                     [path |-> d \o <<sub>>, isDir |-> TRUE],
                     [path |-> d \o <<sub, NameC>>, isDir |-> FALSE]}

TreeOf(r, kinds) == UNION {Shape(r, n, kinds[n]) : n \in TopNames}

\* filepath.Clean on the paths fastwalk builds: "." elements are dropped
Clean(path) ==
  LET c == SelectSeq(path, LAMBDA n : n # NameDot)
  IN  IF c = <<>> THEN <<NameDot>> ELSE c

\* filepath.Base
Base(path) == path[Len(path)]

\* fn with the bug of leaving out the loop over ignores
fnNoIgnores(path, isDir, err) ==
  LET cpath == Clean(path)
      base == Base(cpath)
  IN  IF err THEN [ret |-> "nil", push |-> {}]
      ELSE IF cpath = <<NameDot>> THEN [ret |-> "nil", push |-> {}]
      ELSE IF isDir /\ ~opts.hidden /\ base[1] = Dot
              THEN [ret |-> "SkipDir", push |-> {}]
      ELSE [ret |-> "nil",
            push |-> IF (opts.file /\ ~isDir) \/ (opts.dir /\ isDir)
                        THEN {cpath} ELSE {}]

\* the visitor fn while killed is not set: what it returns and what it pushes
fn(path, isDir, err) ==
  LET cpath == Clean(path)
      base == Base(cpath)
  IN  IF err THEN [ret |-> "nil", push |-> {}]
      ELSE IF cpath = <<NameDot>> THEN [ret |-> "nil", push |-> {}]
      ELSE IF isDir /\ ~opts.hidden /\ base[1] = Dot
              THEN [ret |-> "SkipDir", push |-> {}]
      ELSE IF isDir /\ \E ignore \in ignores : ignore = base
              THEN [ret |-> "SkipDir", push |-> {}]
      ELSE [ret |-> "nil",
            push |-> IF (opts.file /\ ~isDir) \/ (opts.dir /\ isDir)
                        THEN {cpath} ELSE {}]

\* readFiles is called
InitWalk ==
  /\ root \in Roots
  /\ \E kinds \in [TopNames -> Kinds] : tree = TreeOf(root, kinds)
  /\ opts \in [hidden : BOOLEAN, file : BOOLEAN, dir : BOOLEAN]
  /\ ignores \in IgnoreSets
  /\ pending = {[path |-> root, isDir |-> TRUE, err |-> FALSE]}
  /\ seen = {}
  /\ walkPushed = {}
  /\ walkDup = FALSE

\* the entries of directory e
Children(e) ==
  {[path |-> c.path, isDir |-> c.isDir, err |-> FALSE] :
     c \in {x \in tree : /\ Len(x.path) = Len(e.path) + 1
                         /\ SubSeq(x.path, 1, Len(e.path)) = e.path}}

\* one call of fn by fastwalk, and what the call leaves for fastwalk to visit
Visit(e, after) ==
  LET r == fn(e.path, e.isDir, e.err)
  IN  /\ walkPushed' = walkPushed \cup r.push
      /\ walkDup' = (walkDup \/ r.push \cap walkPushed # {})
      /\ seen' = IF e.err THEN seen
                 ELSE seen \cup {[path |-> e.path, isDir |-> e.isDir]}
      /\ pending' = (pending \ {e}) \cup
                      (IF e.isDir /\ ~e.err /\ r.ret = "nil" THEN after ELSE {})
      /\ UNCHANGED <<root, tree, opts, ignores, rvars, fvars>>

\* fn is called on an entry; a directory it did not skip is read
WalkEntry == \E e \in pending : Visit(e, Children(e))

\* fn is called on a directory that cannot be read: fastwalk calls fn on it
\* again, with the error
WalkUnreadable ==
  \E e \in pending : e.isDir /\ ~e.err /\ Visit(e, {[e EXCEPT !.err = TRUE]})

NextWalk == WalkEntry \/ WalkUnreadable

\* readFiles called on a Reader whose goroutines are not modelled
InitWalker == InitWalk /\ ReaderOff /\ FeedOff

SpecWalk == InitWalker /\ [][NextWalk]_vars

TypeOK ==
  /\ wait \in BOOLEAN
  /\ event \in {EvtReady, EvtReadNew, EvtReadFin}
  /\ finChan \in 0..1
  /\ mutex \in {"none", "reader", "term"}
  /\ killed \in BOOLEAN
  /\ pushes \in 0..MaxPush
  /\ rpc \in {"idle", "done"} \cup ReadingPcs \cup FinPcs


(***************************************************************************)
(* Properties of the Reader's goroutines                                   *)
(***************************************************************************)
DriverRunning == rpc \in ReadingPcs \/ \E w \in Walkers : wpc[w] # "idle"

\* C1: in every pass, for both values of wait, EvtReadFin is published exactly
\* once: never before the driver has returned, never twice, and it has been
\* published once when the pass is over; no pusher call of the pass follows it.
C1_FinOncePerPass ==
  /\ finCount <= 1
  /\ finCount = 1 => ~DriverRunning /\ rpc = "done"
  /\ rpc = "done" => finCount = 1
  /\ ~pushAfterFin

\* a second pass with wait set has pushed its records and published EvtReadFin
C1_Witness ==
  /\ pass = 2 /\ rpc = "done" /\ wait /\ finCount = 1 /\ pushes = MaxPush

\* C2: a pass during whose Reading phase terminate() ran to completion
\* publishes EvtReadFin with a nil payload.
C2_CancelledNoRetry ==
  (rpc = "done" /\ cancelled) => ret = NilCommand

\* C3: a command pass in which terminate() is never invoked publishes the
\* command string of that pass when the command exits non-zero, and nil when
\* it exits with status zero.
C3_RetryPayload ==
  (rpc = "done" /\ driver = "cmd" /\ ~termInPass) =>
     /\ proc = "exitFail" => ret = cmdArg /\ ret # NilCommand
     /\ proc = "exit0" => ret = NilCommand

\* the second pass ran "c2" with no terminate(), after a first pass that was
\* terminated, and the command failed: the payload is "c2"
C3_Witness ==
  /\ pass = 2 /\ rpc = "done" /\ ~termInPass /\ termCalls > 0
  /\ proc = "exitFail" /\ cmdArg = "c2" /\ ret = "c2"

\* the same pass with a command that exits with status zero and pushes nothing
C3_WitnessZero ==
  /\ pass = 2 /\ rpc = "done" /\ ~termInPass /\ proc = "exit0" /\ pushes = 0
  /\ ret = NilCommand

\* C4: once terminate() has run during the Reading phase of a pass, the driver
\* returns and EvtReadFin is published (under FairSpec).
C4_TerminateFinishes == cancelled ~> (rpc = "done")

\* the part of C4 that the code does guarantee: once the killed flag is set while
\* the driver reads its source, the pass finishes
KilledWhileReading ==
  killed /\ rpc \in {"cmd_feed", "cmd_wait", "stdin_feed", "files_walk"}
KilledFinishes == KilledWhileReading ~> (rpc = "done")

\* pollers between their swap of EvtReadNew and their eventBox.Set
Publishing == {p \in Passes : ppc[p] = "set"}

\* C9: while the producer runs, a push that returned true is never lost: it
\* is recorded in the event state or held by a poller that is about to publish;
\* each swap of EvtReadNew to EvtReady puts exactly one poller in that position;
\* and (under FairSpec) the poller publishes and leaves the state EvtReady
\* unless the producer pushes again or finishes.
C9_NotifyNotLost ==
  /\ [](owed > 0 => event = EvtReadNew \/ Publishing # {})
  /\ [][(event = EvtReadNew /\ event' = EvtReady) =>
          Cardinality({p \in Passes : ppc'[p] = "set"}) = Cardinality(Publishing) + 1]_vars
  /\ (owed > 0 \/ event = EvtReadNew) ~> (owed = 0 /\ event # EvtReadNew)

\* two pushes returned true and one poller is about to publish once for both
\* while the producer is still reading
C9_Witness ==
  /\ owed = 2 /\ Cardinality(Publishing) = 1 /\ event = EvtReady
  /\ rpc \in {"cmd_feed", "stdin_feed", "files_walk"}

\* C10: every write to killed, exec and command is made by a writer that holds
\* the mutex.
C10_WritesUnderMutex == unguarded = {}


\* a visitor call of walker w returns
VisitorReturns(w) == wpc[w] # "idle" /\ wpc'[w] = "idle"

\* C11: in a walk pass, once terminate() has set killed, every visitor call
\* that completes returns context.Canceled, which ends the walk.
C11_KilledVisitorsCancel ==
  [][\A w \in Walkers :
        (killed /\ rpc = "files_walk" /\ VisitorReturns(w))
           => (wpc[w] = "check" /\ walkErr')]_vars

\* the part of C11 the code does guarantee: a visitor call that reaches the
\* check of killed returns context.Canceled, and a walk pass has a nil payload
CheckedVisitorsCancel ==
  [][\A w \in Walkers :
        (killed /\ rpc = "files_walk" /\ wpc[w] = "check" /\ VisitorReturns(w))
           => walkErr']_vars
WalkPayloadNil == (rpc = "done" /\ driver = "files") => ret = NilCommand

\* C12: a terminate() invoked after the pass has published ReadFin acts on no
\* process and no stream, changes nothing of the Reader State that a later pass
\* reads before writing it, and publishes nothing.
C12_TerminateNoOp ==
  [][(tpc = "body" /\ tpc' = "idle" /\ termDone /\ rpc = "done")
        => UNCHANGED <<stdinClosed, proc, src, exec, command, event, finCount>>]_vars

\* C15: the event state changes only by a producer's store of EvtReadNew after
\* a pusher call that returned true, by a poller's swap of EvtReadNew to
\* EvtReady, by fin's store of EvtReadFin, and by restart's reset of EvtReadFin
\* to EvtReady; so EvtReadFin stays until restart.
C15_EventTransitions ==
  [][event' # event =>
       \/ /\ event' = EvtReadNew /\ event = EvtReady
          /\ pushes' = pushes + 1 /\ owed' = owed + 1
       \/ /\ event = EvtReadNew /\ event' = EvtReady
          /\ \E p \in Passes : ppc[p] = "cas" /\ ppc'[p] = "set"
       \/ /\ event' = EvtReadFin /\ rpc = "fin_store"
       \/ /\ event = EvtReadFin /\ event' = EvtReady
          /\ rpc = "done" /\ pass' = pass + 1]_vars

\* the second pass has stored, had drained and finished: EvtReadFin is the state
C15_Witness ==
  /\ pass = 2 /\ rpc = "done" /\ event = EvtReadFin /\ pushes = MaxPush
  /\ ppc[2] = "exit"

\* C16: every poller's interval lies between the least and the greatest
\* interval; it is the least when the poller starts and after every poll that
\* swaps EvtReadNew; a poll that finds neither EvtReadNew nor EvtReadFin adds
\* the step, cut to the greatest; nothing else changes it while the poller runs.
C16_PollInterval ==
  /\ [](\A p \in Passes : /\ pollInterval[p] >= readerPollIntervalMin
                          /\ pollInterval[p] <= readerPollIntervalMax)
  /\ [][\A p \in Passes :
          /\ (ppc[p] = "none" /\ ppc'[p] # "none")
                => pollInterval'[p] = readerPollIntervalMin
          /\ (ppc[p] = "set" /\ ppc'[p] = "cas")
                => pollInterval'[p] = readerPollIntervalMin
          /\ (ppc[p] = "load" /\ ppc'[p] = "cas")
                => /\ pollInterval'[p] >= pollInterval[p]
                   /\ pollInterval'[p] =
                        Min(pollInterval[p] + readerPollIntervalStep,
                            readerPollIntervalMax)
          /\ (ppc[p] = "cas" \/ ppc'[p] = ppc[p])
                => pollInterval'[p] = pollInterval[p]]_vars

\* a poller that has slept the greatest interval polls again and finds nothing
C16_Witness ==
  /\ ppc[1] = "load" /\ pollInterval[1] = readerPollIntervalMax
  /\ event = EvtReady /\ rpc \in ReadingPcs

\* a poller publishes EvtReadNew
PublishesNew(p) == ppc[p] = "set" /\ ppc'[p] = "cas"

\* C18: for both values of wait, no EvtReadNew is published once the
\* pass's EvtReadFin has been published.
C18_NoNewAfterFin ==
  [][\A p \in Passes : PublishesNew(p) => finCount = 0]_vars

\* the part of C18 the code does guarantee: when wait is set, no EvtReadNew is
\* published once the pass's EvtReadFin has been published
NoNewAfterFinWait ==
  [][wait => \A p \in Passes : PublishesNew(p) => finCount = 0]_vars

\* a poller polls the event state: its compare-and-swap or its load
Polls(p) == ppc[p] \in {"cas", "load"} /\ ppc'[p] # ppc[p]

\* C19: for both values of wait, only the poller of the current pass
\* ever polls the event state: an earlier pass's poller has returned.
C19_OnePoller ==
  [][\A p \in Passes : Polls(p) => p = pass]_vars

\* the part of C19 the code does guarantee: when wait is set, only the poller
\* of the current pass ever polls the event state
OnePollerWait ==
  [][wait => \A p \in Passes : Polls(p) => p = pass]_vars


(***************************************************************************)
(* Properties of feed                                                      *)
(***************************************************************************)
\* the records joined with the delimiter, in push order
RECURSIVE Join(_)
Join(recs) ==
  IF recs = <<>> THEN <<>>
  ELSE IF Len(recs) = 1 THEN recs[1].bytes
  ELSE recs[1].bytes \o <<Delim>> \o Join(Tail(recs))

\* the input without one trailing delimiter, if it has one
ChopDelim(q) ==
  IF q # <<>> /\ q[Len(q)] = Delim THEN SubSeq(q, 1, Len(q) - 1) ELSE q

\* the delimiters of the input, and the bytes after the last of them
DelimPositions == {i \in 1..Len(input) : input[i] = Delim}
RestLen ==
  IF DelimPositions = {} THEN Len(input)
  ELSE Len(input) - (CHOOSE i \in DelimPositions : \A j \in DelimPositions : j <= i)

\* C5: when feed has returned (non-CRLF platform), the pushed records joined
\* with the delimiter are the input, up to one trailing delimiter.
C5_RoundTrip ==
  (fpc = "done" /\ ~isWindows) => Join(pushed) \in {input, ChopDelim(input)}

\* C5 for the inputs no record of which fills the read buffer
NoLongRecord ==
  \A i \in 0..Len(input), j \in 1..Len(input) :
     (j - i >= BufLen /\ i < j) => \E k \in (i + 1)..j : input[k] = Delim
RoundTripShortRecords ==
  (fpc = "done" /\ ~isWindows /\ NoLongRecord) =>
     Join(pushed) \in {input, ChopDelim(input)}

\* the number of pusher calls the claim states
ExpectedPushes == Cardinality(DelimPositions) + (IF RestLen > 0 THEN 1 ELSE 0)

\* C6: when feed has ended, by returning or by a run-time panic, the pusher
\* has been called once per delimiter of the input and once more exactly when
\* bytes follow the last delimiter.
C6_PushCount ==
  fpc \in {"done", "panic"} => Len(pushed) = ExpectedPushes

\* C6 for the runs in which feed returns
PushCountOnReturn == fpc = "done" => Len(pushed) = ExpectedPushes

\* C7: a pushed record longer than 10% of the slab is not carved from the slab.
C7_LargeNotInSlab ==
  \A i \in 1..Len(pushed) :
     Len(pushed[i].bytes) * 10 > readerSlabSize => pushed[i].own

\* C8: a pushed record of at most 10% of the slab is carved from the slab.
C8_SmallInSlab ==
  \A i \in 1..Len(pushed) :
     Len(pushed[i].bytes) * 10 <= readerSlabSize => ~pushed[i].own

\* C14: when readFromStdin has returned, it reports success exactly when the
\* stream ended by the natural end of stream, and failure when it ended with
\* another read error.
C14_ReadErrorFails ==
  fpc = "returned" => (success <=> srcErr = "EOF")

\* the length a record of the input is pushed with: on Windows without a CR
\* that ends it
StripLen(rec, terminated) ==
  IF isWindows /\ terminated /\ rec # <<>> /\ rec[Len(rec)] = CR
     THEN Len(rec) - 1 ELSE Len(rec)

\* the lengths of the records of q, rec being the record read so far
RECURSIVE RecordLens(_, _)
RecordLens(q, rec) ==
  IF q = <<>> THEN (IF rec = <<>> THEN <<>> ELSE <<StripLen(rec, FALSE)>>)
  ELSE IF Head(q) = Delim
          THEN <<StripLen(rec, TRUE)>> \o RecordLens(Tail(q), <<>>)
          ELSE RecordLens(Tail(q), Append(rec, Head(q)))

PushedLens == [i \in 1..Len(pushed) |-> Len(pushed[i].bytes)]

\* C17: when feed has returned, every record ended by CR LF was pushed without
\* the CR and the LF on Windows (line mode), wherever the pair fell in the
\* read buffer, and every other record without its delimiter only.
C17_CRLFStripped ==
  (fpc \in {"done", "returned"} /\ ~(isWindows /\ delimNil)) =>
     PushedLens = RecordLens(input, <<>>)

\* C17 for the inputs no record of which fills the read buffer
CRLFStrippedShortRecords ==
  (fpc \in {"done", "returned"} /\ ~(isWindows /\ delimNil) /\ NoLongRecord) =>
     PushedLens = RecordLens(input, <<>>)

\* the records carved from a slab lie within it and apart from each other
SlabRangesApart ==
  /\ \A i \in 1..Len(pushed) :
        ~pushed[i].own =>
           /\ 0 <= pushed[i].lo /\ pushed[i].lo <= pushed[i].hi
           /\ pushed[i].hi <= readerSlabSize
  /\ \A i, j \in 1..Len(pushed) :
        (i < j /\ ~pushed[i].own /\ ~pushed[j].own /\ pushed[i].slab = pushed[j].slab)
           => pushed[i].hi <= pushed[j].lo

\* C20: for every slab size, buffer size and input, no slab access is out of
\* range, and each record carved from a slab lies within the slab and overlaps
\* no record carved from it earlier.
C20_SlabRanges == fpc # "panic" /\ SlabRangesApart


(***************************************************************************)
(* Properties of the walk                                                  *)
(***************************************************************************)
\* a directory name the walk leaves out: hidden while hidden entries are
\* excluded, or ignored
LeftOut(name) == (~opts.hidden /\ name[1] = Dot) \/ name \in ignores

\* the cleaned path is that of a directory
IsDirPath(cp) ==
  \E e \in tree \cup {[path |-> root, isDir |-> TRUE]} : Clean(e.path) = cp /\ e.isDir

\* the elements of a cleaned path that name directories
DirElements(cp) == {i \in 1..Len(cp) : i < Len(cp) \/ IsDirPath(cp)}

\* the entry's type is one the options ask for
Wanted(e) == (opts.file /\ ~e.isDir) \/ (opts.dir /\ e.isDir)

\* the tree {a.txt, .git/config, sub/b.txt} below ".", walked to the end with
\* ignore set {sub}, files only, hidden entries excluded
ExampleWalk ==
  /\ root = <<NameDot>>
  /\ tree = TreeOf(root, [n \in TopNames |-> IF n = NameA THEN "file" ELSE "dirFile"])
  /\ ignores = {NameSub}
  /\ opts = [hidden |-> FALSE, file |-> TRUE, dir |-> FALSE]
  /\ pending = {}
  /\ \E e \in seen : e.path # root

\* C13: an uncancelled walk never pushes a directory that is hidden (hidden
\* entries excluded) or ignored, nor an entry beneath one, and never calls fn
\* beneath one; it pushes exactly once every other entry fn was called on whose
\* type is wanted, but "."; the example tree gives exactly a.txt.
C13_WalkFilter ==
  /\ ~walkDup
  /\ \A cp \in walkPushed :
        /\ cp # <<NameDot>>
        /\ \A i \in DirElements(cp) : ~LeftOut(cp[i])
        /\ \E e \in seen : Clean(e.path) = cp /\ Wanted(e)
  /\ \A e \in seen :
        LET cp == Clean(e.path)
        IN  /\ \A i \in 1..(Len(cp) - 1) : cp = <<NameDot>> \/ ~LeftOut(cp[i])
            /\ (cp # <<NameDot>> /\ Wanted(e) /\ \A i \in DirElements(cp) : ~LeftOut(cp[i]))
                  => cp \in walkPushed
  /\ ExampleWalk => walkPushed = {<<NameA>>}

\* the example walk is over and has pushed a.txt
C13_Witness == ExampleWalk /\ walkPushed = {<<NameA>>}

=============================================================================
